---- MODULE Spec2Model ----
(***************************************************************************)
(* Tour-quote builder and admin console (KAKNAKIAK/tour-quote).            *)
(*                                                                         *)
(* Two state machines share this module:                                   *)
(*   SpecQuote - the quote builder of src/pages/QuotePage.tsx: the party   *)
(*               composition, the Quote -> Days -> Items tree and its      *)
(*               totals, the product-selector modal.                       *)
(*   SpecAdmin - the admin console of src/unnamed/part_001 (the later      *)
(*               revision of AdminPage) against the document store: the    *)
(*               four collections, the forms, the delete-confirmation      *)
(*               modal and the asynchronous writes in flight.              *)
(* Each specification leaves the other machine's variables at their        *)
(* initial values.                                                         *)
(*                                                                         *)
(* The Modal component (components/ui/Modal) is not part of src/; it is    *)
(* taken to cover the page, so that while a modal is open only the         *)
(* controls inside it can be operated.                                     *)
(*                                                                         *)
(* A call to the store (getDocs, addDoc, updateDoc, deleteDoc,             *)
(* batch.commit) reads or changes the store in the step in which it is     *)
(* answered; between the issue of a call and its answer any other event    *)
(* of the page can happen.                                                 *)
(*                                                                         *)
(* Input (components/ui) is not part of src/ either; like Select           *)
(* (src/components/ui/Select.tsx, which spreads its props over the native  *)
(* control) it is taken to hand the `required` attribute to the native     *)
(* control, so that the browser does not submit a form while such a        *)
(* control is empty.                                                       *)
(*                                                                         *)
(* Money is modelled in whole currency units.  An optional number (a       *)
(* product price that may be absent, the text of a number input that may   *)
(* fail to parse) is a sequence: << >> for absent / NaN, <<n>> for n.      *)
(***************************************************************************)
EXTENDS Integers, Sequences, FiniteSets, TLC

VARIABLES
    \* ---- quote builder (QuotePage.tsx) ----
    pax,                \* quoteInfo.pax: [adults, children, infants]
    countryId,          \* quoteInfo.countryId ("" when no country is selected)
    cityId,             \* quoteInfo.cityId ("" when no city is selected)
    allCities,          \* data of the Cities subscription: set of [id, country]
    effect,             \* the city-reset effect: "scheduled" or "idle"
    days,               \* QuoteDay[]: sequence of [id, items, dayTotal]
    grandTotal,         \* grandTotal state
    isProductModalOpen, \* product selector shown
    activeDayId,        \* day that opened the selector, 0 for null
    modalProducts,      \* city whose products the selector lists, "" for {}
    isModalLoading,     \* selector shows the loading text
    modalError,         \* selector shows the load error
    requests,           \* product lookups of the selector not yet answered
    \* ---- export service and live subscription ----
    fullQuote,          \* the items handed to exportCsvQuote
    csvRows,            \* the item rows of the last CSV export
    sub,                \* useFirestoreCollection: [data, loading, error, listening]
    \* ---- admin console (part_001) and the document store ----
    store,              \* the four collections of the Catalog Store
    activeTab,          \* AdminPage.activeTab
    delModal,           \* AdminPage delete-confirmation modal state
    form,               \* local state of the mounted Manage* component
    ops,                \* asynchronous delete closures in flight
    submitOp,           \* asynchronous create/update calls in flight
    alertMsg            \* the blocking alert() box, "" when none is shown

infoVars == <<countryId, allCities, effect>>
selectorVars == <<modalProducts, isModalLoading, modalError, requests>>
quoteVars == <<pax, cityId, days, grandTotal, isProductModalOpen, activeDayId,
               infoVars, selectorVars>>
adminVars == <<store, activeTab, delModal, form, ops, submitOp, alertMsg>>
serviceVars == <<fullQuote, csvRows, sub>>
otherVars == <<adminVars, serviceVars>>
vars == <<pax, countryId, cityId, allCities, effect,
          days, grandTotal, isProductModalOpen, activeDayId,
          modalProducts, isModalLoading, modalError, requests,
          fullQuote, csvRows, sub,
          store, activeTab, delModal, form, ops, submitOp, alertMsg>>

----------------------------------------------------------------------------
(* Bounds of the quote builder model *)

MaxPax == 1        \* largest count typed into a pax field
MaxDays == 2       \* days in the quote
MaxItems == 2      \* items in the whole quote
MaxQtyInput == 1   \* largest number typed into a quantity field
MaxPriceInput == 1 \* largest number typed into an applied-price field
MaxParty == 2      \* largest count of a pax field when a product is priced
MaxRequests == 2   \* product lookups of the selector in flight

(* Optional numbers *)
None == << >>
Some(n) == <<n>>

\* `x || d` for an optional number: absent, NaN and 0 are falsy.
OrElse(x, d) == IF x = None THEN d ELSE IF x[1] = 0 THEN d ELSE x[1]

\* Math.floor in the place of Math.round (mutant).
MathFloorDiv(num, den) == num \div den

\* Math.round(num / den) for den > 0: the nearest integer, halves upwards.
MathRoundDiv(num, den) == (2 * num + den) \div (2 * den)

(* The catalog the selector offers (products of the selected city).        *)
(* Price fields follow types.ts: each is optional.                         *)
ProductIds == {"tour", "transfer", "ticket", "excursion", "cruise"}

\* The products of the selected city, which the selector lists.
Offered == {"tour", "transfer"}

Catalog(p) ==
    CASE p = "tour" ->
           [PricingType |-> "PerPerson", Price_Adult |-> Some(3),
            Price_Child |-> Some(2), Price_Infant |-> None, Price_Unit |-> None]
      [] p = "excursion" ->
           [PricingType |-> "PerPerson", Price_Adult |-> Some(100),
            Price_Child |-> Some(50), Price_Infant |-> None, Price_Unit |-> None]
      [] p = "cruise" ->
           [PricingType |-> "PerPerson", Price_Adult |-> Some(5),
            Price_Child |-> Some(3), Price_Infant |-> Some(1), Price_Unit |-> None]
      [] p = "transfer" ->
           [PricingType |-> "PerUnit", Price_Adult |-> None,
            Price_Child |-> None, Price_Infant |-> None, Price_Unit |-> Some(5)]
      [] OTHER ->
           [PricingType |-> "PerUnit", Price_Adult |-> None,
            Price_Child |-> None, Price_Infant |-> None, Price_Unit |-> None]

\* What a user can type into a number field: a number or unparsable text.
PaxInputs == {None} \cup {Some(n) : n \in 0..MaxPax}
QtyInputs == {None} \cup {Some(n) : n \in -1..MaxQtyInput}
PriceInputs == {None} \cup {Some(n) : n \in 0..MaxPriceInput}

(* Sums over sequences *)
RECURSIVE SumItemTotals(_)
SumItemTotals(items) ==
    IF items = << >> THEN 0
    ELSE items[1].total + SumItemTotals(Tail(items))

RECURSIVE SumDayTotals(_)
SumDayTotals(ds) ==
    IF ds = << >> THEN 0
    ELSE ds[1].dayTotal + SumDayTotals(Tail(ds))

RECURSIVE CountItems(_)
CountItems(ds) ==
    IF ds = << >> THEN 0
    ELSE Len(ds[1].items) + CountItems(Tail(ds))

DayIdsOf(ds) == {ds[i].id : i \in 1..Len(ds)}
ItemIdsOf(ds) == UNION {{ds[i].items[j].id : j \in 1..Len(ds[i].items)} : i \in 1..Len(ds)}

\* crypto.randomUUID(): an id that no live object or reference carries.
FreshDayId == CHOOSE n \in 1..(MaxDays + 2) :
                 /\ n \notin DayIdsOf(days) \cup {activeDayId}
                 /\ \A m \in 1..(n - 1) : m \in DayIdsOf(days) \cup {activeDayId}
FreshItemId == CHOOSE n \in 1..(MaxItems + 1) :
                 /\ n \notin ItemIdsOf(days)
                 /\ \A m \in 1..(n - 1) : m \in ItemIdsOf(days)

SelectSeq2(s, Keep(_)) == SelectSeq(s, Keep)

RemoveAt(q, k) == [i \in 1..(Len(q) - 1) |-> IF i < k THEN q[i] ELSE q[i + 1]]

----------------------------------------------------------------------------
(* Pricing engine *)

\* The per-head sum of a product for a party composition.
PerHeadSum(p, px) ==
    px.adults * OrElse(Catalog(p).Price_Adult, 0)
    + px.children * OrElse(Catalog(p).Price_Child, 0)
    + px.infants * OrElse(Catalog(p).Price_Infant, 0)

\* recalculateQuote with the item totals left as they were (mutant).
recalculateQuoteKeepsItemTotals(currentDays) ==
    LET newDays == [i \in 1..Len(currentDays) |->
                      [currentDays[i] EXCEPT !.dayTotal = SumItemTotals(currentDays[i].items)]]
    IN  [newDays |-> newDays, newGrandTotal |-> SumDayTotals(newDays)]

\* recalculateQuote that forgets the first day in the grand total (mutant).
recalculateQuoteSkipsFirstDay(currentDays) ==
    LET newItems(items) == [j \in 1..Len(items) |->
                              [items[j] EXCEPT !.total = items[j].quantity * items[j].appliedPrice]]
        newDays == [i \in 1..Len(currentDays) |->
                      [id |-> currentDays[i].id,
                       items |-> newItems(currentDays[i].items),
                       dayTotal |-> SumItemTotals(newItems(currentDays[i].items))]]
    IN  [newDays |-> newDays,
         newGrandTotal |-> IF newDays = << >> THEN 0 ELSE SumDayTotals(Tail(newDays))]

\* recalculateQuote that adds quantity * appliedPrice to the total an item
\* already has (mutant).
recalculateQuoteAccumulates(currentDays) ==
    LET newItems(items) == [j \in 1..Len(items) |->
                              [items[j] EXCEPT !.total = items[j].total
                                    + items[j].quantity * items[j].appliedPrice]]
        newDays == [i \in 1..Len(currentDays) |->
                      [id |-> currentDays[i].id,
                       items |-> newItems(currentDays[i].items),
                       dayTotal |-> SumItemTotals(newItems(currentDays[i].items))]]
    IN  [newDays |-> newDays, newGrandTotal |-> SumDayTotals(newDays)]

\* recalculateQuote: every item total is quantity * appliedPrice, every
\* dayTotal the running sum of its items, grandTotal the running sum of days.
recalculateQuote(currentDays) ==
    LET newItems(items) == [j \in 1..Len(items) |->
                              [items[j] EXCEPT !.total = items[j].quantity * items[j].appliedPrice]]
        newDays == [i \in 1..Len(currentDays) |->
                      [id |-> currentDays[i].id,
                       items |-> newItems(currentDays[i].items),
                       dayTotal |-> SumItemTotals(newItems(currentDays[i].items))]]
    IN  [newDays |-> newDays, newGrandTotal |-> SumDayTotals(newDays)]

----------------------------------------------------------------------------
(* Quote builder actions *)

\* useState of modalProducts, isModalLoading and modalError; no lookup issued.
SelectorInit ==
    /\ modalProducts = ""
    /\ isModalLoading = FALSE
    /\ modalError = FALSE
    /\ requests = << >>

\* The builder with a country and one of its cities selected.
QuoteInit ==
    /\ pax = [adults |-> 1, children |-> 0, infants |-> 0]
    /\ countryId = "country"
    /\ cityId = "city"
    /\ allCities = {[id |-> "city", country |-> "country"]}
    /\ effect = "idle"
    /\ days = << [id |-> 1, items |-> << >>, dayTotal |-> 0] >>
    /\ grandTotal = 0
    /\ isProductModalOpen = FALSE
    /\ activeDayId = 0
    /\ SelectorInit

\* handleInfoChange('pax', {field: parseInt(text) || 0}) that also re-derives
\* the quantity of every item from the party size (mutant).
handleInfoChangePaxTouchesItems ==
    \E field \in {"adults", "children", "infants"}, text \in PaxInputs :
        LET newPax == [pax EXCEPT ![field] = OrElse(text, 0)]
            size == newPax.adults + newPax.children + newPax.infants
            touch(items) == [j \in 1..Len(items) |->
                               [items[j] EXCEPT !.quantity = IF size > 0 THEN size ELSE 1]]
            r == recalculateQuote([i \in 1..Len(days) |->
                                     [days[i] EXCEPT !.items = touch(days[i].items)]])
        IN  /\ ~isProductModalOpen
            /\ pax' = newPax
            /\ days' = r.newDays
            /\ grandTotal' = r.newGrandTotal
            /\ UNCHANGED <<cityId, isProductModalOpen, activeDayId>>
            /\ UNCHANGED <<infoVars, selectorVars, otherVars>>

\* handleInfoChange('pax', {field: parseInt(text) || 0})
handleInfoChangePax ==
    \E field \in {"adults", "children", "infants"}, text \in PaxInputs :
        /\ ~isProductModalOpen
        /\ pax' = [pax EXCEPT ![field] = OrElse(text, 0)]
        /\ UNCHANGED <<cityId, days, grandTotal, isProductModalOpen, activeDayId>>
        /\ UNCHANGED <<infoVars, selectorVars, otherVars>>

\* addDay: appends an empty day; the totals are not recomputed.
addDay ==
    /\ ~isProductModalOpen
    /\ Len(days) < MaxDays
    /\ days' = Append(days, [id |-> FreshDayId, items |-> << >>, dayTotal |-> 0])
    /\ UNCHANGED <<pax, cityId, grandTotal, isProductModalOpen, activeDayId>>
    /\ UNCHANGED <<infoVars, selectorVars, otherVars>>

\* removeDay(id) behind a button that is never disabled (mutant).
removeDayAlwaysEnabled ==
    \E i \in 1..Len(days) :
        LET id == days[i].id
            intermediateDays == SelectSeq2(days, LAMBDA d : d.id # id)
            r == recalculateQuote(intermediateDays)
        IN  /\ ~isProductModalOpen
            /\ days' = r.newDays
            /\ grandTotal' = r.newGrandTotal
            /\ UNCHANGED <<pax, cityId, isProductModalOpen, activeDayId>>
            /\ UNCHANGED <<infoVars, selectorVars, otherVars>>

\* removeDay(id); the button is disabled while days.length <= 1.
removeDay ==
    \E i \in 1..Len(days) :
        LET id == days[i].id
            intermediateDays == SelectSeq2(days, LAMBDA d : d.id # id)
            r == recalculateQuote(intermediateDays)
        IN  /\ ~isProductModalOpen
            /\ ~(Len(days) <= 1)
            /\ days' = r.newDays
            /\ grandTotal' = r.newGrandTotal
            /\ UNCHANGED <<pax, cityId, isProductModalOpen, activeDayId>>
            /\ UNCHANGED <<infoVars, selectorVars, otherVars>>

\* openProductSelector(dayId), up to the await: the lookups of the products
\* of the selected city and of the categories are issued.
openProductSelector ==
    \E i \in 1..Len(days) :
        /\ ~isProductModalOpen
        /\ effect = "idle"
        /\ cityId # ""
        /\ Len(requests) < MaxRequests
        /\ activeDayId' = days[i].id
        /\ isProductModalOpen' = TRUE
        /\ isModalLoading' = TRUE
        /\ modalError' = FALSE
        /\ modalProducts' = ""
        /\ requests' = Append(requests, cityId)
        /\ UNCHANGED <<pax, cityId, days, grandTotal>>
        /\ UNCHANGED <<infoVars, otherVars>>

\* openProductSelector after the await, both lookups answered: the products
\* of the city the lookup was issued for are listed.  Lookups are answered
\* in any order.
productsLoaded ==
    \E k \in 1..Len(requests) :
        /\ effect = "idle"
        /\ modalProducts' = requests[k]
        /\ isModalLoading' = FALSE
        /\ requests' = RemoveAt(requests, k)
        /\ UNCHANGED modalError
        /\ UNCHANGED <<pax, cityId, days, grandTotal, isProductModalOpen, activeDayId>>
        /\ UNCHANGED <<infoVars, otherVars>>

\* openProductSelector after the await, a lookup rejected: catch and finally.
productsFailed ==
    \E k \in 1..Len(requests) :
        /\ effect = "idle"
        /\ modalError' = TRUE
        /\ isModalLoading' = FALSE
        /\ requests' = RemoveAt(requests, k)
        /\ UNCHANGED modalProducts
        /\ UNCHANGED <<pax, cityId, days, grandTotal, isProductModalOpen, activeDayId>>
        /\ UNCHANGED <<infoVars, otherVars>>

\* openProductSelector(dayId) as a whole, its lookups answered before the next
\* event of the page: openProductSelector followed at once by productsLoaded
\* or by productsFailed of the lookup just issued.  The selector state has
\* no influence on pax, days or totals beyond enabling addProductToDay, so
\* the quote tree reaches the same states as with the two separate steps.
openProductSelectorAnswered ==
    \E i \in 1..Len(days), ok \in BOOLEAN :
        /\ ~isProductModalOpen
        /\ effect = "idle"
        /\ cityId # ""
        /\ requests = << >>
        /\ activeDayId' = days[i].id
        /\ isProductModalOpen' = TRUE
        /\ isModalLoading' = FALSE
        /\ modalError' = ~ok
        /\ modalProducts' = IF ok THEN cityId ELSE ""
        /\ UNCHANGED requests
        /\ UNCHANGED <<pax, cityId, days, grandTotal>>
        /\ UNCHANGED <<infoVars, otherVars>>

\* ProductSelectorModal onClose
closeProductSelector ==
    /\ isProductModalOpen
    /\ isProductModalOpen' = FALSE
    /\ activeDayId' = 0
    /\ UNCHANGED <<pax, cityId, days, grandTotal>>
    /\ UNCHANGED <<infoVars, selectorVars, otherVars>>

\* An initial quantity that follows the party for every product (mutant).
InitialQuantityOfParty(p, px) ==
    LET totalPax == px.adults + px.children + px.infants
    IN  IF totalPax > 0 THEN totalPax ELSE 1

\* The initial quantity addProductToDay derives.
InitialQuantity(p, px) ==
    LET totalPax == px.adults + px.children + px.infants
    IN  IF Catalog(p).PricingType = "PerPerson"
        THEN (IF totalPax > 0 THEN totalPax ELSE 1)
        ELSE 1

\* An initial applied price that cuts the average off instead of rounding
\* it (mutant).
InitialAppliedPriceTruncates(p, px) ==
    LET totalPax == px.adults + px.children + px.infants
    IN  IF Catalog(p).PricingType = "PerPerson"
        THEN (IF totalPax > 0 THEN PerHeadSum(p, px) \div totalPax ELSE 0)
        ELSE OrElse(Catalog(p).Price_Unit, 0)

\* The initial applied price addProductToDay derives.
InitialAppliedPrice(p, px) ==
    LET totalPax == px.adults + px.children + px.infants
    IN  IF Catalog(p).PricingType = "PerPerson"
        THEN (IF totalPax > 0 THEN MathRoundDiv(PerHeadSum(p, px), totalPax) ELSE 0)
        ELSE OrElse(Catalog(p).Price_Unit, 0)

\* addProductToDay(product) that puts the item into the first day, whatever
\* day the selector was opened for (mutant).
AddProductToFirstDay(p) ==
        LET newQuoteItem == [id |-> FreshItemId, product |-> p,
                             quantity |-> InitialQuantity(p, pax),
                             appliedPrice |-> InitialAppliedPrice(p, pax),
                             total |-> 0]
            intermediateDays ==
                [i \in 1..Len(days) |->
                    IF i = 1
                    THEN [days[i] EXCEPT !.items = Append(days[i].items, newQuoteItem)]
                    ELSE days[i]]
            r == recalculateQuote(intermediateDays)
        IN  /\ isProductModalOpen
            /\ ~isModalLoading /\ ~modalError /\ modalProducts # ""
            /\ CountItems(days) < MaxItems
            /\ days' = r.newDays
            /\ grandTotal' = r.newGrandTotal
            /\ isProductModalOpen' = FALSE
            /\ activeDayId' = 0
            /\ UNCHANGED <<pax, cityId>>
            /\ UNCHANGED <<infoVars, selectorVars, otherVars>>

\* addProductToDay(product), from the selector modal.
AddProduct(p) ==
        LET newQuoteItem == [id |-> FreshItemId, product |-> p,
                             quantity |-> InitialQuantity(p, pax),
                             appliedPrice |-> InitialAppliedPrice(p, pax),
                             total |-> 0]
            intermediateDays ==
                [i \in 1..Len(days) |->
                    IF days[i].id = activeDayId
                    THEN [days[i] EXCEPT !.items = Append(days[i].items, newQuoteItem)]
                    ELSE days[i]]
            r == recalculateQuote(intermediateDays)
        IN  /\ isProductModalOpen
            /\ ~isModalLoading /\ ~modalError /\ modalProducts # ""
            /\ CountItems(days) < MaxItems
            /\ days' = r.newDays
            /\ grandTotal' = r.newGrandTotal
            /\ isProductModalOpen' = FALSE
            /\ activeDayId' = 0
            /\ UNCHANGED <<pax, cityId>>
            /\ UNCHANGED <<infoVars, selectorVars, otherVars>>

addProductToDay == \E p \in Offered : AddProduct(p)

\* updateQuoteItem(dayId, itemId, field, value) as the two inputs call it:
\* quantity with parseInt(text) || 1, appliedPrice with parseFloat(text) || 0.
\* The inputs are rendered for every item, whatever its pricing type.
updateQuoteItem ==
    \E i \in 1..Len(days) : \E j \in 1..Len(days[i].items) :
      \E field \in {"quantity", "appliedPrice"} :
        \E text \in (IF field = "quantity" THEN QtyInputs ELSE PriceInputs) :
          LET dayId == days[i].id
              itemId == days[i].items[j].id
              value == IF field = "quantity" THEN OrElse(text, 1) ELSE OrElse(text, 0)
              upd(items) == [k \in 1..Len(items) |->
                               IF items[k].id = itemId
                               THEN [items[k] EXCEPT ![field] = value]
                               ELSE items[k]]
              intermediateDays ==
                  [k \in 1..Len(days) |->
                      IF days[k].id = dayId
                      THEN [days[k] EXCEPT !.items = upd(days[k].items)]
                      ELSE days[k]]
              r == recalculateQuote(intermediateDays)
          IN  /\ ~isProductModalOpen
              /\ days' = r.newDays
              /\ grandTotal' = r.newGrandTotal
              /\ UNCHANGED <<pax, cityId, isProductModalOpen, activeDayId>>
              /\ UNCHANGED <<infoVars, selectorVars, otherVars>>

\* removeQuoteItem(dayId, itemId)
removeQuoteItem ==
    \E i \in 1..Len(days) : \E j \in 1..Len(days[i].items) :
        LET dayId == days[i].id
            itemId == days[i].items[j].id
            intermediateDays ==
                [k \in 1..Len(days) |->
                    IF days[k].id = dayId
                    THEN [days[k] EXCEPT !.items = SelectSeq2(days[k].items, LAMBDA it : it.id # itemId)]
                    ELSE days[k]]
            r == recalculateQuote(intermediateDays)
        IN  /\ ~isProductModalOpen
            /\ days' = r.newDays
            /\ grandTotal' = r.newGrandTotal
            /\ UNCHANGED <<pax, cityId, isProductModalOpen, activeDayId>>
            /\ UNCHANGED <<infoVars, selectorVars, otherVars>>

(* -------- country and city of the quote -------- *)

\* The countries the country select lists and the cities the store can hold.
CountryOptions == {"country", "island"}
CityOptions == {"city", "town"}

\* What a snapshot of the Cities collection can deliver.
CitySnapshots ==
    {S \in SUBSET [id : CityOptions, country : CountryOptions] :
        \A x, y \in S : x.id = y.id => x = y}

\* availableCities (useMemo)
availableCities ==
    IF countryId = "" THEN {} ELSE {c \in allCities : c.country = countryId}

\* handleInfoChange('countryId', value) from the country select.
handleInfoChangeCountry ==
    \E value \in ({""} \cup CountryOptions) \ {countryId} :
        /\ ~isProductModalOpen
        /\ effect = "idle"
        /\ countryId' = value
        /\ effect' = "scheduled"
        /\ UNCHANGED <<pax, cityId, allCities, days, grandTotal, isProductModalOpen, activeDayId>>
        /\ UNCHANGED <<selectorVars, otherVars>>

\* handleInfoChange('cityId', value) from the city select, which lists
\* availableCities and is disabled while no country is selected.
handleInfoChangeCity ==
    \E value \in ({""} \cup {c.id : c \in availableCities}) \ {cityId} :
        /\ ~isProductModalOpen
        /\ effect = "idle"
        /\ countryId # ""
        /\ cityId' = value
        /\ effect' = "scheduled"
        /\ UNCHANGED <<pax, countryId, allCities, days, grandTotal, isProductModalOpen, activeDayId>>
        /\ UNCHANGED <<selectorVars, otherVars>>

\* onSnapshot of the Cities subscription: setData(items).
citiesSnapshot ==
    \E S \in CitySnapshots \ {allCities} :
        /\ effect = "idle"
        /\ allCities' = S
        /\ effect' = "scheduled"
        /\ UNCHANGED <<pax, countryId, cityId, days, grandTotal, isProductModalOpen, activeDayId>>
        /\ UNCHANGED <<selectorVars, otherVars>>

\* The city-reset effect without its setQuoteInfo (mutant).
cityResetEffectKeepsCity ==
    /\ effect = "scheduled"
    /\ effect' = "idle"
    /\ UNCHANGED <<pax, countryId, cityId, allCities, days, grandTotal, isProductModalOpen, activeDayId>>
    /\ UNCHANGED <<selectorVars, otherVars>>

\* useEffect on [countryId, cityId, availableCities]: it runs after each
\* render in which one of them changed, before the next event is handled,
\* and runs once more when it has changed cityId itself.
cityResetEffect ==
    /\ effect = "scheduled"
    /\ IF countryId # "" /\ cityId \notin {c.id : c \in availableCities}
       THEN cityId' = "" /\ effect' = (IF cityId # "" THEN "scheduled" ELSE "idle")
       ELSE cityId' = cityId /\ effect' = "idle"
    /\ UNCHANGED <<pax, countryId, allCities, days, grandTotal, isProductModalOpen, activeDayId>>
    /\ UNCHANGED <<selectorVars, otherVars>>

\* The freshly mounted builder: nothing selected, no snapshot received.
InfoInit ==
    /\ pax = [adults |-> 1, children |-> 0, infants |-> 0]
    /\ countryId = ""
    /\ cityId = ""
    /\ allCities = {}
    /\ effect = "idle"
    /\ days = << [id |-> 1, items |-> << >>, dayTotal |-> 0] >>
    /\ grandTotal = 0
    /\ isProductModalOpen = FALSE
    /\ activeDayId = 0
    /\ SelectorInit

InfoNext ==
    \/ handleInfoChangeCountry
    \/ handleInfoChangeCity
    \/ citiesSnapshot
    \/ cityResetEffect

\* The selector listing every product of the catalog.
addAnyProductToDay == \E p \in ProductIds : AddProduct(p)

\* Pricing of new items: the party is whatever was typed before the
\* selector was opened, and any product of the catalog can be picked.
PricingInit ==
    /\ pax \in [adults : 0..MaxParty, children : 0..MaxParty, infants : 0..MaxParty]
    /\ countryId = "country"
    /\ cityId = "city"
    /\ allCities = {[id |-> "city", country |-> "country"]}
    /\ effect = "idle"
    /\ days = << [id |-> 1, items |-> << >>, dayTotal |-> 0] >>
    /\ grandTotal = 0
    /\ isProductModalOpen = TRUE
    /\ activeDayId = 1
    /\ modalProducts = "city"
    /\ isModalLoading = FALSE
    /\ modalError = FALSE
    /\ requests = << >>

PricingNext ==
    \/ openProductSelector
    \/ productsLoaded
    \/ productsFailed
    \/ closeProductSelector
    \/ addAnyProductToDay

\* An item as the quote holds it: its total is quantity * appliedPrice.
HeldItems ==
    {[id |-> 1, product |-> p, quantity |-> q, appliedPrice |-> a, total |-> q * a] :
        p \in Offered, q \in {1, 2}, a \in {0, 3}}

\* A day holding the given items, with the dayTotal recalculateQuote gives.
HeldDay(id, items) == [id |-> id, items |-> items, dayTotal |-> SumItemTotals(items)]

\* Quotes of one or two days that hold at most one item.
HeldDays ==
    {<<HeldDay(1, << >>)>>, <<HeldDay(1, << >>), HeldDay(2, << >>)>>}
    \cup {<<HeldDay(1, <<it>>)>> : it \in HeldItems}
    \cup {<<HeldDay(1, <<it>>), HeldDay(2, << >>)>> : it \in HeldItems}
    \cup {<<HeldDay(1, << >>), HeldDay(2, <<it>>)>> : it \in HeldItems}

\* addProductToDay as a function of the days, the day the selector was
\* opened for and the product: the selector is open and lists the products,
\* and activeDayId is the id of the first day, of the second, or of no day.
AddInit ==
    /\ pax \in {[adults |-> 1, children |-> 0, infants |-> 0],
                [adults |-> 2, children |-> 1, infants |-> 0]}
    /\ countryId = "country"
    /\ cityId = "city"
    /\ allCities = {[id |-> "city", country |-> "country"]}
    /\ effect = "idle"
    /\ days \in HeldDays
    /\ grandTotal = SumDayTotals(days)
    /\ isProductModalOpen = TRUE
    /\ activeDayId \in 1..(MaxDays + 1)
    /\ modalProducts = "city"
    /\ isModalLoading = FALSE
    /\ modalError = FALSE
    /\ requests = << >>

AddNext ==
    \/ addProductToDay
    \/ closeProductSelector
    \/ openProductSelectorAnswered

QuoteNext ==
    \/ handleInfoChangePax
    \/ addDay
    \/ removeDay
    \/ openProductSelectorAnswered
    \/ closeProductSelector
    \/ addProductToDay
    \/ updateQuoteItem
    \/ removeQuoteItem

----------------------------------------------------------------------------
(* Export service and live subscription *)

\* useFirestoreCollection: useState initial values and the effect that
\* subscribes on mount.
SubInit == [data |-> {}, loading |-> TRUE, error |-> FALSE, listening |-> TRUE]

\* Nothing handed to the export service; the subscription of a mounted
\* component before its first snapshot.
ServiceInit ==
    /\ fullQuote = << >>
    /\ csvRows = << >>
    /\ sub = SubInit

(* The product selector and its lookups *)

\* The builder with a country selected that has two cities, one of them
\* selected.
SelectorPageInit ==
    /\ pax = [adults |-> 1, children |-> 0, infants |-> 0]
    /\ countryId = "country"
    /\ cityId = "city"
    /\ allCities = {[id |-> c, country |-> "country"] : c \in CityOptions}
    /\ effect = "idle"
    /\ days = << [id |-> 1, items |-> << >>, dayTotal |-> 0] >>
    /\ grandTotal = 0
    /\ isProductModalOpen = FALSE
    /\ activeDayId = 0
    /\ SelectorInit

SelectorNext ==
    \/ handleInfoChangeCity
    \/ cityResetEffect
    \/ openProductSelector
    \/ productsLoaded
    \/ productsFailed
    \/ closeProductSelector

\* C27: the answer (or failure) of a lookup that was issued for another city
\* before the newest lookup still in flight changes neither the product
\* list nor the error nor the loading flag of the selector.  Violated:
\* openProductSelector keeps no mark of the request it belongs to, so the
\* answer to the lookup for the city selected before lists that city's
\* products and ends the loading state while the newer lookup is pending.
C27_StaleAnswerIgnored ==
    [][\A k \in 1..Len(requests) :
          (/\ requests' = RemoveAt(requests, k)
           /\ k < Len(requests)
           /\ requests[k] # requests[Len(requests)])
          => UNCHANGED <<modalProducts, isModalLoading, modalError>>]_vars

(* The totals recomputation on its own *)
MaxRecalcItems == 3  \* items of the days handed to recalculateQuote

\* Items with any quantity and price and with a total that may be stale.
RecalcItems ==
    {[id |-> 1, product |-> "transfer", quantity |-> q, appliedPrice |-> a, total |-> t] :
        q \in {1, 2}, a \in {1, 3}, t \in {0, 5}}

\* Days of n items, with a dayTotal that may be stale.
RecalcDays(id, n) ==
    {[id |-> id, items |-> its, dayTotal |-> t] :
        its \in [1..n -> RecalcItems], t \in {0, 5}}

\* Any days are handed to recalculateQuote.
RecalcInit ==
    /\ pax = [adults |-> 1, children |-> 0, infants |-> 0]
    /\ countryId = "country"
    /\ cityId = "city"
    /\ allCities = {[id |-> "city", country |-> "country"]}
    /\ effect = "idle"
    /\ \E n1 \in 0..MaxRecalcItems, n2 \in 0..MaxRecalcItems :
          /\ n1 + n2 <= MaxRecalcItems
          /\ days \in {<<d1>> : d1 \in RecalcDays(1, n1)}
                      \cup {<<d1, d2>> : d1 \in RecalcDays(1, n1), d2 \in RecalcDays(2, n2)}
    /\ grandTotal \in {0, 5}
    /\ isProductModalOpen = FALSE
    /\ activeDayId = 0
    /\ SelectorInit

\* const { newDays, newGrandTotal } = recalculateQuote(days); setDays;
\* setGrandTotal.
applyRecalculateQuote ==
    LET r == recalculateQuote(days)
    IN  /\ days' = r.newDays
        /\ grandTotal' = r.newGrandTotal
        /\ UNCHANGED <<pax, cityId, isProductModalOpen, activeDayId>>
        /\ UNCHANGED <<infoVars, selectorVars, otherVars>>

RecalcNext == applyRecalculateQuote

\* A sequence rearranged by a permutation of its positions.
Permuted(q, f) == [i \in 1..Len(q) |-> q[f[i]]]

MaxExportItems == 2  \* items of the exported quote
MaxExportQty == 2    \* largest quantity of an exported item

\* In the export model an amount is a count of thousandths of a currency
\* unit: 10500 is 10.5.  Applied prices a user can type, none of them half
\* way between two hundredths.
ExportPrices == {0, 500, 10004, 10500}

\* Math.round(amount), as an amount: the nearest whole unit, halves upwards.
MathRoundAmount(x) == MathRoundDiv(x, 1000) * 1000

\* amount.toFixed(2), as an amount: the nearest hundredth.
ToFixed2(x) == MathRoundDiv(x, 10) * 10

\* The quantity, unit-price and total cells of the item row written by
\* exportCsvQuote; None is the text cell '해당 없음'.  The file holds two
\* revisions of the function: revision 1 rounds the amounts to whole units,
\* revision 2 prints them with two decimals.
CsvRow(item, revision) ==
    [pricing |-> item.PricingType,
     quantity |-> IF item.PricingType = "PerUnit" THEN Some(item.quantity) ELSE None,
     unitPrice |-> IF item.PricingType = "PerUnit"
                   THEN Some(IF revision = 1 THEN MathRoundAmount(item.appliedPrice)
                                             ELSE ToFixed2(item.appliedPrice))
                   ELSE None,
     total |-> Some(IF revision = 1 THEN MathRoundAmount(item.total)
                                    ELSE ToFixed2(item.total))]

\* Items as the builder stores them: total = quantity * appliedPrice.
ExportItems ==
    {[PricingType |-> t, quantity |-> q, appliedPrice |-> a, total |-> q * a] :
        t \in {"PerPerson", "PerUnit"}, q \in 1..MaxExportQty, a \in ExportPrices}

\* A quote is handed to the export service, nothing exported yet.
ExportInit ==
    /\ fullQuote \in UNION {[1..n -> ExportItems] : n \in 1..MaxExportItems}
    /\ csvRows = << >>
    /\ sub = SubInit

\* exportCsvQuote(fullQuote): one row per item, in order.
exportCsvQuote ==
    \E revision \in {1, 2} :
        /\ csvRows' = [i \in 1..Len(fullQuote) |-> CsvRow(fullQuote[i], revision)]
        /\ UNCHANGED <<fullQuote, sub>>
        /\ UNCHANGED <<quoteVars, adminVars>>

ExportNext == exportCsvQuote

\* C21: for every PerUnit item the exported row carries the stored quantity,
\* the stored appliedPrice without rounding, and quantity * appliedPrice as
\* the total.  Violated: revision 1 writes Math.round(appliedPrice) and
\* Math.round(total), so 2 x 10.5 is exported as quantity 2, price 11,
\* total 21.
C21_CsvRowCarriesStoredFields ==
    \A i \in 1..Len(csvRows) :
        fullQuote[i].PricingType = "PerUnit" =>
            /\ csvRows[i].quantity = Some(fullQuote[i].quantity)
            /\ csvRows[i].unitPrice = Some(fullQuote[i].appliedPrice)
            /\ csvRows[i].total = Some(fullQuote[i].quantity * fullQuote[i].appliedPrice)

(* Live subscription: useFirestoreCollection as used by ManageCountries *)
MaxSubDocs == 6  \* documents of the subscribed collection

\* onSnapshot success callback: setData(items), setLoading(false).
snapshotDelivered ==
    \E items \in SUBSET (1..MaxSubDocs) :
        /\ sub.listening
        /\ sub' = [sub EXCEPT !.data = items, !.loading = FALSE]
        /\ UNCHANGED <<fullQuote, csvRows>>
        /\ UNCHANGED <<quoteVars, adminVars>>

\* onSnapshot error callback: console.error, setError(err),
\* setLoading(false).  The store ends a listener it reports an error for;
\* the effect depends on [collectionName, firestoreQuery] only, which no
\* caller changes, so it does not run again.
snapshotError ==
    /\ sub.listening
    /\ sub' = [sub EXCEPT !.error = TRUE, !.loading = FALSE, !.listening = FALSE]
    /\ UNCHANGED <<fullQuote, csvRows>>
    /\ UNCHANGED <<quoteVars, adminVars>>

\* The user leaves the tab and comes back: unsubscribe on unmount, a new
\* component with a new subscription on mount.
remount ==
    /\ sub' = SubInit
    /\ UNCHANGED <<fullQuote, csvRows>>
    /\ UNCHANGED <<quoteVars, adminVars>>

\* What the page draws from the hook's result: every caller destructures
\* data (ManageCountries also loading); none reads error.
Rendered(h) == IF h.loading THEN {"loading"} ELSE {"list"}

SubscriptionInit ==
    /\ fullQuote = << >>
    /\ csvRows = << >>
    /\ sub = SubInit

SubscriptionNext ==
    \/ snapshotDelivered
    \/ snapshotError
    \/ remount

\* C22: when the subscription delivers an error, an error message is shown
\* on the page, the data received before is kept, and the hook does not
\* subscribe again on its own (only a remount by the user does).  Violated:
\* the error is stored in the hook and logged, but no page reads it.
C22_SubscriptionErrorShownDataKept ==
    [][/\ (sub'.error /\ ~sub.error) =>
            /\ "error" \in Rendered(sub')
            /\ sub'.data = sub.data
            /\ ~sub'.listening
       /\ (sub.error /\ sub'.listening) => sub' = SubInit]_vars

----------------------------------------------------------------------------
(* Properties of the quote builder *)

ItemAt(ds, i, j) == ds[i].items[j]
ItemPositions(ds) == {<<i, j>> \in (1..Len(ds)) \X (1..MaxItems + 1) : j <= Len(ds[i].items)}
PerPersonAt(ds, ij) == Catalog(ItemAt(ds, ij[1], ij[2]).product).PricingType = "PerPerson"
PerUnitItems(ds) == {ItemAt(ds, ij[1], ij[2]) : ij \in {q \in ItemPositions(ds) : ~PerPersonAt(ds, q)}}

\* The sum over days of the sum over items of item.total, from the leaves.
RECURSIVE LeafSum(_)
LeafSum(ds) ==
    IF ds = << >> THEN 0
    ELSE SumItemTotals(ds[1].items) + LeafSum(Tail(ds))

\* C1: in every reachable state each day's dayTotal is the sum of its items'
\* totals and grandTotal is the sum of the dayTotals, hence the sum over days
\* of the sum over items of item.total.
C1_TotalsConsistent ==
    /\ \A i \in 1..Len(days) : days[i].dayTotal = SumItemTotals(days[i].items)
    /\ grandTotal = SumDayTotals(days)
    /\ grandTotal = LeafSum(days)

\* C1 witness: two days that both carry an item with a non-zero total.
C1_Witness ==
    /\ Len(days) = 2
    /\ \A i \in 1..2 : Len(days[i].items) = 1 /\ days[i].items[1].total # 0
    /\ grandTotal # 0

\* C2 (as claimed): a pax change leaves every PerPerson item with
\* total = adults*priceAdult + children*priceChild + infants*priceInfant of
\* the new pax.
C2_PaxChangeRecomputesPerPerson ==
    [][pax' # pax =>
         \A ij \in ItemPositions(days') :
            PerPersonAt(days', ij) =>
               ItemAt(days', ij[1], ij[2]).total
                 = PerHeadSum(ItemAt(days', ij[1], ij[2]).product, pax')]_vars

\* C3 (as claimed): editing quantity or appliedPrice of a PerPerson item
\* through updateQuoteItem never changes its total.
C3_PerPersonTotalIgnoresUnitFields ==
    [][\A ij \in ItemPositions(days) :
          (/\ ij \in ItemPositions(days')
           /\ PerPersonAt(days, ij)
           /\ ItemAt(days', ij[1], ij[2]).id = ItemAt(days, ij[1], ij[2]).id
           /\ \/ ItemAt(days', ij[1], ij[2]).quantity # ItemAt(days, ij[1], ij[2]).quantity
              \/ ItemAt(days', ij[1], ij[2]).appliedPrice # ItemAt(days, ij[1], ij[2]).appliedPrice)
          => ItemAt(days', ij[1], ij[2]).total = ItemAt(days, ij[1], ij[2]).total]_vars

\* C4: every item of either pricing mode has total = quantity * appliedPrice
\* in every reachable state; the placeholder total 0 of a new item is never
\* observable.
C4_ItemTotalIsQuantityTimesPrice ==
    \A ij \in ItemPositions(days) :
        ItemAt(days, ij[1], ij[2]).total
          = ItemAt(days, ij[1], ij[2]).quantity * ItemAt(days, ij[1], ij[2]).appliedPrice

\* C4 witness: a freshly derived PerPerson item and a PerUnit item, both with
\* a non-zero total.
C4_Witness ==
    /\ \E ij \in ItemPositions(days) :
          PerPersonAt(days, ij) /\ ItemAt(days, ij[1], ij[2]).total # 0
    /\ \E ij \in ItemPositions(days) :
          ~PerPersonAt(days, ij) /\ ItemAt(days, ij[1], ij[2]).total # 0

\* C5: a PerUnit item has total = quantity * appliedPrice, and a pax change
\* leaves quantity, appliedPrice and total of every PerUnit item unchanged.
C5_PerUnitUnaffectedByPax ==
    [][/\ \A it \in PerUnitItems(days) : it.total = it.quantity * it.appliedPrice
       /\ \A it \in PerUnitItems(days') : it.total = it.quantity * it.appliedPrice
       /\ pax' # pax => PerUnitItems(days') = PerUnitItems(days)]_vars

\* C5 witness: a PerUnit item with a non-zero total is in the quote while the
\* party differs from the initial one adult.
C5_Witness ==
    /\ pax # [adults |-> 1, children |-> 0, infants |-> 0]
    /\ \E it \in PerUnitItems(days) : it.total # 0

\* C12: a quote always has at least one day; with removeDay refused while
\* one day remains, no sequence of addDay and removeDay empties the quote.
C12_AtLeastOneDay == Len(days) >= 1

\* C12 witness: a day was added and the first day removed, so that exactly
\* one day remains and its remove button is disabled.
C12_Witness == Len(days) = 1 /\ days[1].id # 1

(* Country and city *)

BelongsTo(city, country) == \E c \in allCities : c.id = city /\ c.country = country

\* C17: a change of countryId to a country that the selected city does not
\* belong to schedules the reset effect, and the effect, which runs before
\* anything else can happen, clears cityId and leaves the country selected.
C17_CountryChangeClearsCity ==
    [][/\ (/\ countryId' # countryId
           /\ countryId' # ""
           /\ cityId # ""
           /\ \A c \in allCities : c.id = cityId => c.country # countryId')
          => effect' = "scheduled" /\ cityId' = cityId
       /\ (/\ effect = "scheduled"
           /\ countryId # ""
           /\ cityId # ""
           /\ ~BelongsTo(cityId, countryId))
          => cityId' = "" /\ countryId' = countryId]_vars

\* C17 witness: a city is selected, the country select has just been set to
\* another country than the city's, and the reset effect is due.
C17_Witness ==
    /\ effect = "scheduled"
    /\ countryId # ""
    /\ \E c \in allCities : c.id = cityId /\ c.country # countryId

\* C18 (as claimed): in every settled state a non-empty cityId identifies a
\* city whose country is the current countryId.
C18_CityBelongsToCountry ==
    (effect = "idle" /\ cityId # "") => BelongsTo(cityId, countryId)

(* Pricing of a new item *)

\* The items a step has added to the quote.
AddedItems ==
    {ItemAt(days', ij[1], ij[2]) :
        ij \in {q \in ItemPositions(days') :
                  ItemAt(days', q[1], q[2]).id \notin ItemIdsOf(days)}}

PartySize == pax.adults + pax.children + pax.infants

\* adults*priceAdult + children*priceChild + infants*priceInfant, an absent
\* price counting as 0.
PriceOr0(x) == IF x = None THEN 0 ELSE x[1]
DirectSum(p) ==
    pax.adults * PriceOr0(Catalog(p).Price_Adult)
    + pax.children * PriceOr0(Catalog(p).Price_Child)
    + pax.infants * PriceOr0(Catalog(p).Price_Infant)

Abs(n) == IF n < 0 THEN 0 - n ELSE n

\* C13 (as claimed): right after a PerPerson product is added, the total of
\* the new item is the direct per-head sum for the current pax.
C13_NewPerPersonTotalIsPerHeadSum ==
    [][\A it \in AddedItems :
          Catalog(it.product).PricingType = "PerPerson"
             => it.total = DirectSum(it.product)]_vars

\* C14: a new PerPerson item has quantity = party size (1 for an empty
\* party) and appliedPrice = the whole number nearest to per-head sum /
\* party size, a half rounding up (0 for an empty party).
C14_PerPersonInitialFields ==
    [][\A it \in AddedItems :
          Catalog(it.product).PricingType = "PerPerson"
             => IF PartySize = 0
                THEN it.quantity = 1 /\ it.appliedPrice = 0
                ELSE /\ it.quantity = PartySize
                     /\ 2 * (it.appliedPrice * PartySize - DirectSum(it.product)) <= PartySize
                     /\ 2 * (it.appliedPrice * PartySize - DirectSum(it.product)) > 0 - PartySize]_vars

\* C14 witness: the party of two adults and a child with the excursion
\* (100 / 50) added: quantity 3, applied price 83 = round(250 / 3).
C14_Witness ==
    /\ pax = [adults |-> 2, children |-> 1, infants |-> 0]
    /\ \E ij \in ItemPositions(days) :
          /\ ItemAt(days, ij[1], ij[2]).product = "excursion"
          /\ ItemAt(days, ij[1], ij[2]).quantity = 3
          /\ ItemAt(days, ij[1], ij[2]).appliedPrice = 83

\* C15 (as claimed): quantity * appliedPrice of a new PerPerson item is
\* within 1 currency unit of the direct per-head sum.
C15_ProductWithinOneUnit ==
    [][\A it \in AddedItems :
          Catalog(it.product).PricingType = "PerPerson"
             => Abs(it.quantity * it.appliedPrice - DirectSum(it.product)) <= 1]_vars

\* C15 (amended): quantity * appliedPrice of a new PerPerson item is within
\* half the quantity of the direct per-head sum.
C15_ProductWithinHalfQuantity ==
    [][\A it \in AddedItems :
          Catalog(it.product).PricingType = "PerPerson"
             => 2 * Abs(it.quantity * it.appliedPrice - DirectSum(it.product))
                  <= it.quantity]_vars

\* C15 witness: a party of four with the tour (3 / 2) added: per-head sum
\* 10, quantity 4, applied price 3, product 12, two units off.
C15_Witness ==
    /\ pax = [adults |-> 2, children |-> 2, infants |-> 0]
    /\ \E ij \in ItemPositions(days) :
          /\ ItemAt(days, ij[1], ij[2]).product = "tour"
          /\ ItemAt(days, ij[1], ij[2]).quantity * ItemAt(days, ij[1], ij[2]).appliedPrice = 12

\* C29: a step that adds an item to the quote is taken with the selector
\* open, keeps the number of days and their ids, appends exactly one item at
\* the end of the day whose id is activeDayId, and leaves the id, product,
\* quantity and appliedPrice of every item held before where they were; a
\* step that closes the selector while activeDayId is the id of no day
\* (addProductToDay included) leaves the days, their totals and the grand
\* total as they were.
C29_AddAppendsToActiveDay ==
    [][/\ CountItems(days') > CountItems(days) =>
            /\ isProductModalOpen
            /\ Len(days') = Len(days)
            /\ \A i \in 1..Len(days) :
                  /\ days'[i].id = days[i].id
                  /\ Len(days'[i].items) =
                        Len(days[i].items) + (IF days[i].id = activeDayId THEN 1 ELSE 0)
                  /\ \A j \in 1..Len(days[i].items) :
                        /\ days'[i].items[j].id = days[i].items[j].id
                        /\ days'[i].items[j].product = days[i].items[j].product
                        /\ days'[i].items[j].quantity = days[i].items[j].quantity
                        /\ days'[i].items[j].appliedPrice = days[i].items[j].appliedPrice
            /\ CountItems(days') = CountItems(days) + 1
            /\ \E i \in 1..Len(days) :
                  /\ days[i].id = activeDayId
                  /\ days'[i].items[Len(days'[i].items)].id \notin ItemIdsOf(days)
       /\ (isProductModalOpen /\ ~isProductModalOpen'
              /\ activeDayId \notin DayIdsOf(days)) =>
            /\ days' = days
            /\ grandTotal' = grandTotal]_vars

\* C29 witness: the item held by the first day is where it was and a second
\* item, the added one, is the last of the second day.
C29_Witness ==
    /\ ~isProductModalOpen
    /\ Len(days) = 2
    /\ Len(days[1].items) = 1 /\ days[1].items[1].id = 1
    /\ Len(days[2].items) = 1 /\ days[2].items[1].id = 2

\* C30: every item of the quote has a quantity of at least 1.
C30_QuantityAtLeastOne ==
    \A ij \in ItemPositions(days) : ItemAt(days, ij[1], ij[2]).quantity >= 1

\* C16: a new PerUnit item has quantity 1 and appliedPrice = the unit price
\* of the product (0 when absent), whatever the party.
C16_PerUnitInitialFields ==
    [][\A it \in AddedItems :
          Catalog(it.product).PricingType = "PerUnit"
             => /\ it.quantity = 1
                /\ it.appliedPrice = PriceOr0(Catalog(it.product).Price_Unit)]_vars

\* C16 witness: with a party of more than one, a PerUnit product with a
\* unit price and one without have both been added with quantity 1.
C16_Witness ==
    /\ PartySize > 1
    /\ \E ij \in ItemPositions(days) :
          /\ ItemAt(days, ij[1], ij[2]).product = "transfer"
          /\ ItemAt(days, ij[1], ij[2]).quantity = 1
          /\ ItemAt(days, ij[1], ij[2]).appliedPrice = 5
    /\ \E ij \in ItemPositions(days) :
          /\ ItemAt(days, ij[1], ij[2]).product = "ticket"
          /\ ItemAt(days, ij[1], ij[2]).quantity = 1
          /\ ItemAt(days, ij[1], ij[2]).appliedPrice = 0

----------------------------------------------------------------------------
(* The document store and the admin console                                *)
(*                                                                         *)
(* A document is a record carrying its id; a reference field holds the id  *)
(* of the referenced document (the store enforces no foreign keys).  The   *)
(* price fields of a Product play no part in the admin operations and are  *)
(* left out of the store records.  The lists the console shows come from   *)
(* live subscriptions and are read from the store directly.                *)

MaxCountries == 1  \* country ids the store can hold
MaxCities == 2     \* city ids
MaxCategories == 1 \* category ids
MaxProducts == 1   \* product ids
MaxName == 1       \* distinct non-blank names typed into a name field
MaxOps == 1        \* delete closures in flight at once
MaxRepeats == 1    \* further executions of a delete that is already in flight
MaxSubmits == 1    \* create/update calls in flight at once

CHUNK_SIZE == 30

Tabs == {"Products", "Categories", "Cities", "Countries"}
Passwords == {"", "1234", "0000"}

NoFn == [kind |-> "none", id |-> 0]

\* useState initial values of a Manage* component (a fresh mount).
InitialForm ==
    [editing |-> 0, isSubmitting |-> FALSE, processingId |-> 0,
     submitError |-> FALSE, isModalOpen |-> FALSE]

IdsOf(docs) == {d.id : d \in docs}

CollectionOf(tab) ==
    CASE tab = "Countries" -> store.countries
      [] tab = "Cities" -> store.cities
      [] tab = "Categories" -> store.categories
      [] OTHER -> store.products

SeqRange(q) == {q[i] : i \in 1..Len(q)}

\* Every id of a collection that the store, a reference, a closure or a
\* call in flight still mentions; an auto-generated id is none of these.
Mentioned(coll) ==
    IdsOf(store[coll])
    \cup (IF coll = "countries" THEN {c.country : c \in store.cities} ELSE {})
    \cup (IF coll = "cities" THEN {q.city : q \in store.products} ELSE {})
    \cup (IF coll = "categories" THEN {q.category : q \in store.products} ELSE {})
    \cup {b[2] : b \in {x \in UNION {o.batch : o \in SeqRange(ops)} : x[1] = coll}}
    \cup (IF coll = "cities" THEN UNION {SeqRange(o.cityIds) : o \in SeqRange(ops)} ELSE {})
    \cup {o.id : o \in {x \in SeqRange(ops) : x.coll = coll}}
    \cup {w.doc.id : w \in {x \in SeqRange(submitOp) : x.coll = coll}}
    \cup (IF coll = "countries" THEN {w.doc.country : w \in {x \in SeqRange(submitOp) : x.coll = "cities"}} ELSE {})
    \cup (IF coll = "cities" THEN {w.doc.city : w \in {x \in SeqRange(submitOp) : x.coll = "products"}} ELSE {})
    \cup (IF coll = "categories" THEN {w.doc.category : w \in {x \in SeqRange(submitOp) : x.coll = "products"}} ELSE {})
    \cup (IF delModal.fn.kind = coll THEN {delModal.fn.id} ELSE {})
    \cup {form.editing}

MaxIdOf(coll) ==
    CASE coll = "countries" -> MaxCountries
      [] coll = "cities" -> MaxCities
      [] coll = "categories" -> MaxCategories
      [] OTHER -> MaxProducts

HasAutoId(coll) == \E n \in 1..MaxIdOf(coll) : n \notin Mentioned(coll)
AutoId(coll) == CHOOSE n \in 1..MaxIdOf(coll) :
                   /\ n \notin Mentioned(coll)
                   /\ \A m \in 1..(n - 1) : m \in Mentioned(coll)

CollName(tab) ==
    CASE tab = "Countries" -> "countries"
      [] tab = "Cities" -> "cities"
      [] tab = "Categories" -> "categories"
      [] OTHER -> "products"

\* A sequence listing a set of ids in ascending order (snapshot order).
Ascending(S) ==
    [n \in 1..Cardinality(S) |->
        CHOOSE x \in S : Cardinality({y \in S : y < x}) = n - 1]

\* No alert() box is up and no modal covers the page.
PageFree == alertMsg = "" /\ ~delModal.open /\ ~form.isModalOpen

AdminInit ==
    /\ store = [countries |-> {[id |-> 1, name |-> 1]},
                cities |-> {[id |-> 1, name |-> 1, country |-> 1]},
                categories |-> {[id |-> 1, name |-> 1]},
                products |-> {[id |-> 1, name |-> 1, city |-> 1, category |-> 1]}]
    /\ activeTab = "Products"
    /\ delModal = [open |-> FALSE, password |-> "", error |-> FALSE, fn |-> NoFn]
    /\ form = InitialForm
    /\ ops = << >>
    /\ submitOp = << >>
    /\ alertMsg = ""

(* -------- AdminPage -------- *)

\* Tab button: setActiveTab(t).  The Manage* component of the old tab is
\* unmounted (its state is lost, the closures and calls it started go on)
\* and the one of the new tab is mounted afresh.
setActiveTab ==
    \E t \in Tabs \ {activeTab} :
        /\ PageFree
        /\ activeTab' = t
        /\ form' = InitialForm
        /\ ops' = [k \in 1..Len(ops) |-> [ops[k] EXCEPT !.attached = FALSE]]
        /\ submitOp' = [k \in 1..Len(submitOp) |-> [submitOp[k] EXCEPT !.attached = FALSE]]
        /\ UNCHANGED <<store, delModal, alertMsg>>
        /\ UNCHANGED <<quoteVars, serviceVars>>

\* The buttons of a row are disabled while the component is busy.
isBusy ==
    IF activeTab = "Products" THEN form.processingId # 0
    ELSE form.isSubmitting \/ form.processingId # 0

\* handleDelete(id) of the mounted Manage* component: requestDelete(closure).
handleDelete ==
    \E id \in IdsOf(CollectionOf(activeTab)) :
        /\ PageFree
        /\ ~isBusy
        /\ delModal' = [open |-> TRUE, password |-> "", error |-> FALSE,
                        fn |-> [kind |-> CollName(activeTab), id |-> id]]
        /\ UNCHANGED <<store, activeTab, form, ops, submitOp, alertMsg>>
        /\ UNCHANGED <<quoteVars, serviceVars>>

\* Typing into the password field of the delete-confirmation modal.
setDeletePassword ==
    \E pw \in Passwords \ {delModal.password} :
        /\ alertMsg = ""
        /\ delModal.open
        /\ delModal' = [delModal EXCEPT !.password = pw]
        /\ UNCHANGED <<store, activeTab, form, ops, submitOp, alertMsg>>
        /\ UNCHANGED <<quoteVars, serviceVars>>

\* handleCancelDelete: the cancel button or closing the modal.
handleCancelDelete ==
    /\ alertMsg = ""
    /\ delModal.open
    /\ delModal' = [delModal EXCEPT !.open = FALSE, !.fn = NoFn]
    /\ UNCHANGED <<store, activeTab, form, ops, submitOp, alertMsg>>
    /\ UNCHANGED <<quoteVars, serviceVars>>

\* The closure handed to requestDelete, up to its first await: the busy flag
\* is set and the first store call issued.
StartedOp(fn) ==
    [coll |-> fn.kind, id |-> fn.id,
     pc |-> IF fn.kind = "countries" THEN "cities"
            ELSE IF fn.kind = "products" THEN "delete" ELSE "products",
     cityIds |-> << >>, i |-> 0, batch |-> {}, attached |-> TRUE]

\* handleConfirmDelete that runs the closure without comparing the password
\* (mutant).
handleConfirmDeleteUnchecked ==
    /\ alertMsg = ""
    /\ delModal.open
    /\ delModal.password # "1234"
    /\ delModal.fn # NoFn
    /\ Len(ops) < MaxOps
    /\ delModal' = [delModal EXCEPT !.error = FALSE]
    /\ ops' = Append(ops, StartedOp(delModal.fn))
    /\ form' = [form EXCEPT !.processingId = delModal.fn.id]
    /\ UNCHANGED <<store, activeTab, submitOp, alertMsg>>
    /\ UNCHANGED <<quoteVars, serviceVars>>

\* handleConfirmDelete with a wrong password.
handleConfirmDeleteWrong ==
    /\ alertMsg = ""
    /\ delModal.open
    /\ delModal.password # "1234"
    /\ delModal' = [delModal EXCEPT !.error = TRUE, !.password = ""]
    /\ UNCHANGED <<store, activeTab, form, ops, submitOp, alertMsg>>
    /\ UNCHANGED <<quoteVars, serviceVars>>

\* The executions in flight of the operation a closure stands for.
RunsOf(fn) == {k \in 1..Len(ops) : ops[k].coll = fn.kind /\ ops[k].id = fn.id}

\* handleConfirmDelete with the right password: await onConfirmDelete().
handleConfirmDelete ==
    /\ alertMsg = ""
    /\ delModal.open
    /\ delModal.password = "1234"
    /\ delModal.fn # NoFn
    /\ Len(ops) < MaxOps
    /\ delModal' = [delModal EXCEPT !.error = FALSE]
    /\ ops' = Append(ops, StartedOp(delModal.fn))
    /\ form' = [form EXCEPT !.processingId = delModal.fn.id,
                            !.submitError = IF delModal.fn.kind = "products" THEN @ ELSE FALSE]
    /\ UNCHANGED <<store, activeTab, submitOp, alertMsg>>
    /\ UNCHANGED <<quoteVars, serviceVars>>

\* handleConfirmDelete submitted again while the closure it awaits is still
\* running: the submit button of the modal is never disabled and the modal
\* stays open, the password still typed in, until the closure returns.  The
\* same closure is called once more.
handleConfirmDeleteAgain ==
    /\ alertMsg = ""
    /\ delModal.open
    /\ delModal.password = "1234"
    /\ delModal.fn # NoFn
    /\ RunsOf(delModal.fn) # {}
    /\ Cardinality(RunsOf(delModal.fn)) <= MaxRepeats
    /\ delModal' = [delModal EXCEPT !.error = FALSE]
    /\ ops' = Append(ops, StartedOp(delModal.fn))
    /\ form' = [form EXCEPT !.processingId = delModal.fn.id,
                            !.submitError = IF delModal.fn.kind = "products" THEN @ ELSE FALSE]
    /\ UNCHANGED <<store, activeTab, submitOp, alertMsg>>
    /\ UNCHANGED <<quoteVars, serviceVars>>

(* -------- the delete closures, one step per awaited store call -------- *)

\* The finally block of a closure, then handleCancelDelete() in the
\* awaiting handleConfirmDelete.
Settle(k) ==
    /\ ops' = RemoveAt(ops, k)
    /\ form' = IF ops[k].attached THEN [form EXCEPT !.processingId = 0] ELSE form
    /\ delModal' = [delModal EXCEPT !.open = FALSE, !.fn = NoFn]

\* ManageCountries closure: the Cities lookup answers.
CitiesLookupOk(k) ==
    LET o == ops[k]
        cityIds == Ascending({c.id : c \in {x \in store.cities : x.country = o.id}})
    IN  /\ alertMsg = ""
        /\ o.pc = "cities"
        /\ ops' = [ops EXCEPT ![k] =
                     IF Len(cityIds) > 0
                     THEN [o EXCEPT !.cityIds = cityIds, !.i = 0, !.pc = "products"]
                     ELSE [o EXCEPT !.batch = {<<"countries", o.id>>}, !.pc = "commit"]]
        /\ UNCHANGED <<store, activeTab, delModal, form, submitOp, alertMsg>>
        /\ UNCHANGED <<quoteVars, serviceVars>>

\* The city references of one Products lookup when the list is not cut
\* into chunks, as in the earlier revision of the page (mutant).
ChunkAtWhole(cityIds, i) == SeqRange(cityIds)

\* cityIds.slice(i, i + CHUNK_SIZE): the city references of one Products
\* lookup.
ChunkAt(cityIds, i) ==
    {cityIds[n] : n \in {m \in 1..Len(cityIds) : m > i /\ m <= i + CHUNK_SIZE}}

\* The Products lookup answers: for a country the chunk cityIds.slice(i,
\* i + CHUNK_SIZE), for a city or a category the one reference.  After the
\* last lookup the parents are added to the batch and the commit is issued.
ProductsLookupOk(k) ==
    LET o == ops[k]
        chunk == ChunkAt(o.cityIds, o.i)
        found == CASE o.coll = "countries" -> {q \in store.products : q.city \in chunk}
                   [] o.coll = "cities" -> {q \in store.products : q.city = o.id}
                   [] OTHER -> {q \in store.products : q.category = o.id}
        batch == o.batch \cup {<<"products", q.id>> : q \in found}
        last == o.coll # "countries" \/ ~(o.i + CHUNK_SIZE < Len(o.cityIds))
        parents == {<<"cities", c>> : c \in SeqRange(o.cityIds)} \cup {<<o.coll, o.id>>}
    IN  /\ alertMsg = ""
        /\ o.pc = "products"
        /\ ops' = [ops EXCEPT ![k] =
                     IF last
                     THEN [o EXCEPT !.batch = batch \cup parents, !.pc = "commit"]
                     ELSE [o EXCEPT !.batch = batch, !.i = o.i + CHUNK_SIZE]]
        /\ UNCHANGED <<store, activeTab, delModal, form, submitOp, alertMsg>>
        /\ UNCHANGED <<quoteVars, serviceVars>>

\* The store without the documents a batch names.
Without(st, batch) ==
    [coll \in DOMAIN st |-> {d \in st[coll] : <<coll, d.id>> \notin batch}]

\* batch.commit() succeeds: every deletion of the batch is applied at once.
CommitOk(k) ==
    /\ alertMsg = ""
    /\ ops[k].pc = "commit"
    /\ store' = Without(store, ops[k].batch)
    /\ Settle(k)
    /\ UNCHANGED <<activeTab, submitOp, alertMsg>>
    /\ UNCHANGED <<quoteVars, serviceVars>>

\* ManageProducts closure: deleteDoc succeeds.
DeleteDocOk(k) ==
    /\ alertMsg = ""
    /\ ops[k].pc = "delete"
    /\ store' = Without(store, {<<"products", ops[k].id>>})
    /\ Settle(k)
    /\ UNCHANGED <<activeTab, submitOp, alertMsg>>
    /\ UNCHANGED <<quoteVars, serviceVars>>

\* A failing commit that has already applied the product deletions (mutant).
OpFailPartial(k) ==
    /\ alertMsg = ""
    /\ ops[k].pc \in {"cities", "products", "commit", "delete"}
    /\ ops' = [ops EXCEPT ![k].pc = "alert"]
    /\ alertMsg' = ops[k].coll
    /\ store' = Without(store, {b \in ops[k].batch : b[1] = "products"})
    /\ UNCHANGED <<activeTab, delModal, form, submitOp>>
    /\ UNCHANGED <<quoteVars, serviceVars>>

\* The awaited store call of a closure is rejected: the catch block shows
\* alert(...), which blocks until it is dismissed.
OpFail(k) ==
    /\ alertMsg = ""
    /\ ops[k].pc \in {"cities", "products", "commit", "delete"}
    /\ ops' = [ops EXCEPT ![k].pc = "alert"]
    /\ alertMsg' = ops[k].coll
    /\ UNCHANGED <<store, activeTab, delModal, form, submitOp>>
    /\ UNCHANGED <<quoteVars, serviceVars>>

\* The alert is dismissed and the closure starts over (mutant).
DismissAlertRetries(k) ==
    /\ ops[k].pc = "alert"
    /\ alertMsg' = ""
    /\ ops' = [ops EXCEPT ![k] = StartedOp([kind |-> ops[k].coll, id |-> ops[k].id])]
    /\ UNCHANGED <<store, activeTab, delModal, form, submitOp>>
    /\ UNCHANGED <<quoteVars, serviceVars>>

\* The alert is dismissed: the finally block runs and the closure returns.
DismissAlert(k) ==
    /\ ops[k].pc = "alert"
    /\ alertMsg' = ""
    /\ Settle(k)
    /\ UNCHANGED <<store, activeTab, submitOp>>
    /\ UNCHANGED <<quoteVars, serviceVars>>

(* -------- the forms -------- *)

\* Edit button of a row (Countries, Cities, Categories): setEditing(doc).
startEdit ==
    \E id \in IdsOf(CollectionOf(activeTab)) :
        /\ PageFree
        /\ activeTab # "Products"
        /\ ~isBusy
        /\ form' = [form EXCEPT !.editing = id]
        /\ UNCHANGED <<store, activeTab, delModal, ops, submitOp, alertMsg>>
        /\ UNCHANGED <<quoteVars, serviceVars>>

\* Cancel button next to the form, shown while editing.
cancelEdit ==
    /\ PageFree
    /\ activeTab # "Products"
    /\ form.editing # 0
    /\ ~isBusy
    /\ form' = [form EXCEPT !.editing = 0]
    /\ UNCHANGED <<store, activeTab, delModal, ops, submitOp, alertMsg>>
    /\ UNCHANGED <<quoteVars, serviceVars>>

\* ManageProducts: openAddModal (id = 0) or openEditModal(product).
openProductModal ==
    \E id \in {0} \cup IdsOf(store.products) :
        /\ PageFree
        /\ activeTab = "Products"
        /\ form.processingId = 0
        /\ form' = [form EXCEPT !.editing = id, !.submitError = FALSE, !.isModalOpen = TRUE]
        /\ UNCHANGED <<store, activeTab, delModal, ops, submitOp, alertMsg>>
        /\ UNCHANGED <<quoteVars, serviceVars>>

\* ManageProducts: the modal's cancel button or onClose.
closeProductModal ==
    /\ alertMsg = ""
    /\ ~delModal.open
    /\ form.isModalOpen
    /\ ~form.isSubmitting
    /\ form' = [form EXCEPT !.isModalOpen = FALSE]
    /\ UNCHANGED <<store, activeTab, delModal, ops, submitOp, alertMsg>>
    /\ UNCHANGED <<quoteVars, serviceVars>>

\* The text of a name field: 0 is the empty text, -1 a text of white space
\* only, 1..MaxName the texts with something to read.
NameTexts == -1..MaxName

\* name.trim()
trim(n) == IF n = -1 THEN 0 ELSE n

\* The payloads a form can hold: the text of the name field and the
\* references picked from the selects, whose options are the listed
\* documents (0 when nothing is picked).
Payloads(tab) ==
    CASE tab = "Countries" -> {[name |-> n] : n \in NameTexts}
      [] tab = "Categories" -> {[name |-> n] : n \in NameTexts}
      [] tab = "Cities" ->
           {[name |-> n, country |-> c] :
               n \in NameTexts, c \in {0} \cup IdsOf(store.countries)}
      [] OTHER ->
           {[name |-> n, city |-> c, category |-> g] :
               n \in NameTexts, c \in {0} \cup IdsOf(store.cities),
               g \in {0} \cup IdsOf(store.categories)}

\* The field checks that stop a submission before any store call: the
\* early return of handleSubmit in ManageCountries, ManageCities and
\* ManageCategories; in ManageProducts, whose handleSubmit checks nothing,
\* the `required` attribute of the name field and the two selects, which
\* the browser takes to be met by any non-empty value.
Valid(tab, pl) ==
    CASE tab = "Cities" -> trim(pl.name) # 0 /\ pl.country # 0
      [] tab = "Products" -> pl.name # 0 /\ pl.city # 0 /\ pl.category # 0
      [] OTHER -> trim(pl.name) # 0

WithId(tab, pl, id) ==
    CASE tab = "Cities" -> [id |-> id, name |-> pl.name, country |-> pl.country]
      [] tab = "Products" -> [id |-> id, name |-> pl.name, city |-> pl.city, category |-> pl.category]
      [] OTHER -> [id |-> id, name |-> pl.name]

\* handleSubmit of the mounted component with a valid form: the busy flag is
\* set and updateDoc (editing) or addDoc (a new auto-id) is issued.
handleSubmit ==
    \E pl \in Payloads(activeTab) :
        /\ alertMsg = ""
        /\ ~delModal.open
        /\ IF activeTab = "Products" THEN form.isModalOpen /\ ~form.isSubmitting
                                     ELSE ~isBusy
        /\ Valid(activeTab, pl)
        /\ Len(submitOp) < MaxSubmits
        /\ form.editing = 0 => HasAutoId(CollName(activeTab))
        /\ submitOp' = Append(submitOp,
              [coll |-> CollName(activeTab),
               update |-> form.editing # 0,
               doc |-> WithId(activeTab, pl,
                              IF form.editing # 0 THEN form.editing
                              ELSE AutoId(CollName(activeTab))),
               attached |-> TRUE])
        /\ form' = [form EXCEPT !.isSubmitting = TRUE, !.submitError = FALSE]
        /\ UNCHANGED <<store, activeTab, delModal, ops, alertMsg>>
        /\ UNCHANGED <<quoteVars, serviceVars>>

\* handleSubmit with a required field missing: nothing happens.
handleSubmitInvalid ==
    \E pl \in Payloads(activeTab) :
        /\ alertMsg = ""
        /\ ~delModal.open
        /\ IF activeTab = "Products" THEN form.isModalOpen /\ ~form.isSubmitting
                                     ELSE ~isBusy
        /\ ~Valid(activeTab, pl)
        /\ UNCHANGED <<selectorVars, otherVars>>
        /\ UNCHANGED <<quoteVars, serviceVars>>

\* The store confirms a create or update; updateDoc needs the document to
\* exist.  The form is reset and the busy flag cleared.
SubmitOk(k) ==
    LET w == submitOp[k]
    IN  /\ alertMsg = ""
        /\ w.update => w.doc.id \in IdsOf(store[w.coll])
        /\ store' = [store EXCEPT ![w.coll] = {d \in @ : d.id # w.doc.id} \cup {w.doc}]
        /\ submitOp' = RemoveAt(submitOp, k)
        /\ form' = IF w.attached
                   THEN [form EXCEPT !.editing = 0, !.isSubmitting = FALSE,
                                     !.isModalOpen = FALSE,
                                     !.submitError = IF w.coll = "products" THEN FALSE ELSE @]
                   ELSE form
        /\ UNCHANGED <<activeTab, delModal, ops, alertMsg>>
        /\ UNCHANGED <<quoteVars, serviceVars>>

\* The store rejects a create or update and the form stays busy: the catch
\* block without the finally block (mutant).
SubmitFailKeepsBusy(k) ==
    LET w == submitOp[k]
    IN  /\ alertMsg = ""
        /\ submitOp' = RemoveAt(submitOp, k)
        /\ form' = IF w.attached THEN [form EXCEPT !.submitError = TRUE] ELSE form
        /\ UNCHANGED <<store, activeTab, delModal, ops, alertMsg>>
        /\ UNCHANGED <<quoteVars, serviceVars>>

\* The store rejects a create or update: the error is shown by the form.
SubmitFail(k) ==
    LET w == submitOp[k]
    IN  /\ alertMsg = ""
        /\ submitOp' = RemoveAt(submitOp, k)
        /\ form' = IF w.attached
                   THEN [form EXCEPT !.submitError = TRUE, !.isSubmitting = FALSE]
                   ELSE form
        /\ UNCHANGED <<store, activeTab, delModal, ops, alertMsg>>
        /\ UNCHANGED <<quoteVars, serviceVars>>

AdminNext ==
    \/ setActiveTab
    \/ handleDelete
    \/ setDeletePassword
    \/ handleCancelDelete
    \/ handleConfirmDeleteWrong
    \/ handleConfirmDelete
    \/ \E k \in 1..Len(ops) : CitiesLookupOk(k)
    \/ \E k \in 1..Len(ops) : ProductsLookupOk(k)
    \/ \E k \in 1..Len(ops) : CommitOk(k)
    \/ \E k \in 1..Len(ops) : DeleteDocOk(k)
    \/ \E k \in 1..Len(ops) : OpFail(k)
    \/ \E k \in 1..Len(ops) : DismissAlert(k)
    \/ startEdit
    \/ cancelEdit
    \/ openProductModal
    \/ closeProductModal
    \/ handleSubmit
    \/ handleSubmitInvalid
    \/ \E k \in 1..Len(submitOp) : SubmitOk(k)
    \/ \E k \in 1..Len(submitOp) : SubmitFail(k)

\* The delete path of the console: the tabs, the delete-confirmation modal
\* and the closures, with the submit button of the modal pressed as often
\* as the page allows.
DeleteNext ==
    \/ setActiveTab
    \/ handleDelete
    \/ setDeletePassword
    \/ handleCancelDelete
    \/ handleConfirmDeleteWrong
    \/ handleConfirmDelete
    \/ handleConfirmDeleteAgain
    \/ \E k \in 1..Len(ops) : CitiesLookupOk(k)
    \/ \E k \in 1..Len(ops) : ProductsLookupOk(k)
    \/ \E k \in 1..Len(ops) : CommitOk(k)
    \/ \E k \in 1..Len(ops) : DeleteDocOk(k)
    \/ \E k \in 1..Len(ops) : OpFail(k)
    \/ \E k \in 1..Len(ops) : DismissAlert(k)

\* A tab with a cascading delete over a store whose first country has any
\* number of cities, each with one product; a second country with one city
\* and one product stands by.  On the Cities and Categories tabs, where
\* every row is a delete of its own, the first country has few cities.
MaxCascadeCities == 65  \* cities of the country that is deleted

CascadeInitOf(counts) ==
    /\ \E n \in counts, tab \in {"Countries", "Cities", "Categories"} :
          /\ tab # "Countries" => n <= MaxCities
          /\ activeTab = tab
          /\ store = [countries |-> {[id |-> 1, name |-> 1], [id |-> 2, name |-> 1]},
                      cities |-> {[id |-> c, name |-> 1, country |-> 1] : c \in 1..n}
                                 \cup {[id |-> n + 1, name |-> 1, country |-> 2]},
                      categories |-> {[id |-> 1, name |-> 1]},
                      products |-> {[id |-> c, name |-> 1, city |-> c, category |-> 1] :
                                       c \in 1..(n + 1)}]
    /\ delModal = [open |-> FALSE, password |-> "", error |-> FALSE, fn |-> NoFn]
    /\ form = InitialForm
    /\ ops = << >>
    /\ submitOp = << >>
    /\ alertMsg = ""

\* Every number of cities up to the bound.
CascadeInit == CascadeInitOf(0..MaxCascadeCities)

\* The numbers of cities around the chunk boundaries: no lookup, one, two
\* and three lookups.
CascadeEdgesInit ==
    CascadeInitOf({n \in 0..MaxCascadeCities :
                      n <= MaxCities \/ n % CHUNK_SIZE <= 1 \/ n = MaxCascadeCities})

\* handleConfirmDelete while no delete closure is running.  A cascading
\* delete is followed on its own here, from its first lookup to its end;
\* closures running side by side belong to the admin console and the
\* delete path (SpecAdmin, SpecDelete).
handleConfirmDeleteAlone == ops = << >> /\ handleConfirmDelete

CascadeNext ==
    \/ handleDelete
    \/ setDeletePassword
    \/ handleCancelDelete
    \/ handleConfirmDeleteAlone
    \/ \E k \in 1..Len(ops) : CitiesLookupOk(k)
    \/ \E k \in 1..Len(ops) : ProductsLookupOk(k)
    \/ \E k \in 1..Len(ops) : CommitOk(k)
    \/ \E k \in 1..Len(ops) : OpFail(k)
    \/ \E k \in 1..Len(ops) : DismissAlert(k)

\* The console while the user stays on one tab, whichever it is: every
\* write path of the mounted component.  (Leaving the tab unmounts the
\* component and its flags with it; setActiveTab mounts an idle one.)
WritesInit ==
    /\ store = [countries |-> {[id |-> 1, name |-> 1]},
                cities |-> {[id |-> 1, name |-> 1, country |-> 1]},
                categories |-> {[id |-> 1, name |-> 1]},
                products |-> {[id |-> 1, name |-> 1, city |-> 1, category |-> 1]}]
    /\ activeTab \in Tabs
    /\ delModal = [open |-> FALSE, password |-> "", error |-> FALSE, fn |-> NoFn]
    /\ form = InitialForm
    /\ ops = << >>
    /\ submitOp = << >>
    /\ alertMsg = ""

WritesNext ==
    \/ handleDelete
    \/ setDeletePassword
    \/ handleCancelDelete
    \/ handleConfirmDeleteWrong
    \/ handleConfirmDelete
    \/ handleConfirmDeleteAgain
    \/ \E k \in 1..Len(ops) : CitiesLookupOk(k)
    \/ \E k \in 1..Len(ops) : ProductsLookupOk(k)
    \/ \E k \in 1..Len(ops) : CommitOk(k)
    \/ \E k \in 1..Len(ops) : DeleteDocOk(k)
    \/ \E k \in 1..Len(ops) : OpFail(k)
    \/ \E k \in 1..Len(ops) : DismissAlert(k)
    \/ startEdit
    \/ cancelEdit
    \/ openProductModal
    \/ closeProductModal
    \/ handleSubmit
    \/ handleSubmitInvalid
    \/ \E k \in 1..Len(submitOp) : SubmitOk(k)
    \/ \E k \in 1..Len(submitOp) : SubmitFail(k)

\* The store answers the call the k-th delete closure in flight awaits, by
\* its result or by a rejection.  The answer is handled once no alert()
\* box blocks the page.
StoreAnswersDelete(k) ==
    /\ k \in 1..Len(ops)
    /\ \/ CitiesLookupOk(k) \/ ProductsLookupOk(k)
       \/ CommitOk(k) \/ DeleteDocOk(k) \/ OpFail(k)

\* The store answers the k-th addDoc or updateDoc in flight.
StoreAnswersSubmit(k) ==
    /\ k \in 1..Len(submitOp)
    /\ SubmitOk(k) \/ SubmitFail(k)

\* The user dismisses the alert() box, which blocks the page until then.
AlertDismissed == \E k \in 1..Len(ops) : DismissAlert(k)

----------------------------------------------------------------------------
(* Properties of the admin console and the store *)

Cascades == {"countries", "cities", "categories"}

\* A cascading delete is in flight from its first lookup until its commit
\* has settled or its failure has been caught.
InFlightCascade(k) == ops[k].coll \in Cascades /\ ops[k].pc # "alert"

\* The step in which closure k commits its batch.
Commits(k) ==
    /\ ops[k].pc = "commit"
    /\ Len(ops') = Len(ops) - 1
    /\ alertMsg = "" /\ alertMsg' = ""

CitiesOf(st, country) == {c.id : c \in {x \in st.cities : x.country = country}}

\* C6 (as claimed): once a Country deletion has committed, the store holds
\* no City referencing that Country, no Product referencing a City that
\* referenced it, and not the Country; every other entity is untouched.
C6_CountryDeleteRemovesAllDependents ==
    [][\A k \in 1..Len(ops) :
          (ops[k].coll = "countries" /\ Commits(k)) =>
             LET id == ops[k].id
                 gone == CitiesOf(store, id)
             IN  /\ id \notin IdsOf(store'.countries)
                 /\ CitiesOf(store', id) = {}
                 /\ \A q \in store'.products : q.city \notin gone
                 /\ store'.categories = store.categories
                 /\ \A c \in store.cities : c.country # id => c \in store'.cities
                 /\ \A q \in store.products : q.city \notin gone => q \in store'.products
                 /\ \A c \in store.countries : c.id # id => c \in store'.countries]_vars

\* C7: when a dependent lookup or the batch commit of a cascading delete
\* fails, the store is left exactly as it was and the user is notified; the
\* store changes only in the step of a successful commit, delete or save.
C7_FailedDeleteRemovesNothing ==
    [][/\ \A k \in 1..Len(ops) :
             (/\ ops[k].coll \in Cascades
              /\ ops[k].pc # "alert"
              /\ k <= Len(ops')
              /\ ops'[k].pc = "alert")
             => store' = store /\ alertMsg' = ops[k].coll
       /\ store' # store =>
             \/ \E k \in 1..Len(ops) : ops[k].pc \in {"commit", "delete"} /\ Len(ops') < Len(ops)
             \/ Len(submitOp') < Len(submitOp)]_vars

\* C7 witness: the commit of a cascade with several documents in its batch
\* has failed, the alert is up and every document of the batch is still
\* stored.
C7_Witness ==
    /\ alertMsg # ""
    /\ \E k \in 1..Len(ops) :
          /\ ops[k].pc = "alert"
          /\ ops[k].coll \in Cascades
          /\ Cardinality(ops[k].batch) >= 2
          /\ \A b \in ops[k].batch : b[2] \in IdsOf(store[b[1]])

\* C8 (as claimed): once a City (Category) deletion has committed, the store
\* holds no Product referencing that City (Category) and not the City
\* (Category); the removals happen in that one step and nothing else changes.
C8_CityCategoryDeleteRemovesProducts ==
    [][\A k \in 1..Len(ops) :
          (ops[k].coll \in {"cities", "categories"} /\ Commits(k)) =>
             LET id == ops[k].id
                 dep(q) == IF ops[k].coll = "cities" THEN q.city = id ELSE q.category = id
             IN  /\ id \notin IdsOf(store'[ops[k].coll])
                 /\ \A q \in store'.products : ~dep(q)
                 /\ store'.countries = store.countries
                 /\ \A q \in store.products : ~dep(q) => q \in store'.products
                 /\ \A coll \in {"cities", "categories"} :
                       \A d \in store[coll] :
                          (coll # ops[k].coll \/ d.id # id) => d \in store'[coll]]_vars

\* C9 (as claimed): every City references an existing Country and every
\* Product references an existing City and an existing Category.
C9_ReferentialIntegrity ==
    /\ \A c \in store.cities : c.country \in IdsOf(store.countries)
    /\ \A q \in store.products :
          q.city \in IdsOf(store.cities) /\ q.category \in IdsOf(store.categories)

\* C10 (as claimed): while a cascading delete is in flight no other write of
\* the session (create, update or another delete) is in flight with it.
C10_CascadeRunsAlone ==
    \A k \in 1..Len(ops) :
        InFlightCascade(k) => Len(submitOp) = 0 /\ Len(ops) = 1

\* C11 (as claimed): at most one execution of a delete, and of a create or
\* update, is in flight at any time: no two closures in flight delete the
\* same document and no two calls in flight save the same document.
C11_NoDoubleSubmit ==
    /\ \A j, k \in 1..Len(ops) :
          (ops[j].coll = ops[k].coll /\ ops[j].id = ops[k].id) => j = k
    /\ \A j, k \in 1..Len(submitOp) :
          (submitOp[j].coll = submitOp[k].coll /\ submitOp[j].doc.id = submitOp[k].doc.id)
             => j = k

\* Call k has been answered by a rejection: it has left the calls in
\* flight and the store does not hold the document it was to write.
Rejected(k) ==
    /\ submitOp' = RemoveAt(submitOp, k)
    /\ submitOp[k].doc \notin store'[submitOp[k].coll]

\* C19 (as claimed): when the store rejects a create or update, the store,
\* the editing target and the open form are as before and the error
\* message is set.
C19_RejectedSaveKeepsStateAndShowsError ==
    [][\A k \in 1..Len(submitOp) :
          Rejected(k) =>
             /\ store' = store
             /\ form'.editing = form.editing
             /\ form'.isModalOpen = form.isModalOpen
             /\ form'.submitError]_vars

\* C20 (as claimed): no create or update call is issued with a required
\* field missing: every call in flight carries a name that is not blank
\* and, for a City, a country, for a Product, a city and a category.
C20_NoStoreCallWithMissingField ==
    \A k \in 1..Len(submitOp) :
        LET w == submitOp[k]
        IN  /\ trim(w.doc.name) # 0
            /\ w.coll = "cities" => w.doc.country # 0
            /\ w.coll = "products" => w.doc.city # 0 /\ w.doc.category # 0

----------------------------------------------------------------------------
(* Specifications *)

\* The offsets at which the loop of a country closure issues a lookup.
ChunkStarts(cityIds) == {j \in 0..(Len(cityIds) - 1) : j % CHUNK_SIZE = 0}

\* The products a batch names.
BatchProducts(o) == {b[2] : b \in {x \in o.batch : x[1] = "products"}}

\* The stored products of a set of cities.
ProductsOfCities(cs) == {q.id : q \in {x \in store.products : x.city \in cs}}

C28_DeleteOnlyAfterPassphrase ==
    [][/\ Len(ops') > Len(ops) =>
            /\ delModal.open
            /\ delModal.password = "1234"
            /\ delModal.fn # NoFn
            /\ ops' = Append(ops, StartedOp(delModal.fn))
       /\ store' # store =>
            \E k \in 1..Len(ops) :
                \/ ops[k].pc = "commit" /\ store' = Without(store, ops[k].batch)
                \/ ops[k].pc = "delete"
                      /\ store' = Without(store, {<<"products", ops[k].id>>})
       /\ (delModal.open /\ ~delModal.error /\ delModal'.error) =>
            /\ delModal.password # "1234"
            /\ delModal'.open
            /\ delModal'.fn = delModal.fn
            /\ ops' = ops
            /\ store' = store
       /\ (delModal.open /\ delModal'.open) => delModal'.fn = delModal.fn
       /\ (delModal.open /\ ~delModal'.open /\ Len(ops') = Len(ops)) =>
            /\ delModal'.fn = NoFn
            /\ ops' = ops
            /\ store' = store]_vars

\* C28 witness: a wrong passphrase has been submitted: the form shows its
\* error, the delete is still pending, nothing is in flight and the store
\* holds every document it started with.
C28_Witness ==
    /\ delModal.open
    /\ delModal.error
    /\ delModal.fn # NoFn
    /\ ops = << >>
    /\ \A coll \in DOMAIN store : Cardinality(store[coll]) = 1

\* The phases of a cascading delete in the order of its code.
Rank(pc) ==
    CASE pc = "cities" -> 1
      [] pc = "products" -> 2
      [] pc = "commit" -> 3
      [] OTHER -> 4

\* C25, safety: a cascading delete in flight never goes back to an earlier
\* phase (nor to an earlier chunk); when its commit is issued every lookup
\* has been answered; after the commit is issued it is not issued again, the
\* closure can only end or report the failure; and a closure ends either in
\* the step in which its commit is applied (Committed) or when the alert of
\* its failure is dismissed, the store untouched (Failed), never both.
C25_PhasesInOrder ==
    [][/\ Len(ops') >= Len(ops) =>
            \A k \in 1..Len(ops) :
                ops[k].coll \in Cascades =>
                    /\ Rank(ops'[k].pc) >= Rank(ops[k].pc)
                    /\ ops'[k].i >= ops[k].i
                    /\ ops'[k].pc = "commit" =>
                          /\ ops[k].pc \in {"cities", "products", "commit"}
                          /\ ~(ops'[k].i + CHUNK_SIZE < Len(ops'[k].cityIds))
                          /\ <<ops'[k].coll, ops'[k].id>> \in ops'[k].batch
       /\ Len(ops') < Len(ops) =>
            \E k \in 1..Len(ops) :
                /\ ops' = RemoveAt(ops, k)
                /\ ops[k].coll \in Cascades =>
                      \/ ops[k].pc = "commit" /\ store' = Without(store, ops[k].batch)
                      \/ ops[k].pc = "alert" /\ store' = store]_vars

\* C25, liveness: with a store that answers every call (and a user who
\* dismisses the alert of a failure), every closure in flight ends.
C25_CascadeEnds == (ops # << >>) ~> (ops = << >>)

\* C25: both parts.
C25_PhasesInOrderAndEnds == C25_PhasesInOrder /\ C25_CascadeEnds

\* C25 witness: the cascade of a Country with more than two full chunks of
\* Cities has ended Committed: nothing is in flight, no alert is up, and of
\* the store only the other country with its city and product is left.
C25_Witness ==
    /\ ops = << >>
    /\ alertMsg = ""
    /\ IdsOf(store.countries) = {2}
    /\ Cardinality(store.cities) = 1
    /\ \E q \in store.products :
          store.products = {q} /\ q.id > 2 * CHUNK_SIZE + 1

\* C23: whenever a write has set a busy flag of the mounted component
\* (isSubmitting by a create or update, processingId - deletingId in the
\* product list - by a delete), the flag is reset later, whether the write
\* succeeds or fails, and an alert() box that reports a failure goes away:
\* the console is never left blocked.
C23_BusyFlagsEventuallyReset ==
    /\ form.isSubmitting ~> ~form.isSubmitting
    /\ (form.processingId # 0) ~> (form.processingId = 0)
    /\ (alertMsg # "") ~> (alertMsg = "")

\* C23 witness: a save has been rejected, its error is shown, and the form
\* is idle again with nothing in flight.
C23_Witness ==
    /\ form.submitError
    /\ ~form.isSubmitting
    /\ form.processingId = 0
    /\ submitOp = << >>
    /\ ops = << >>
    /\ alertMsg = ""

InitQuote == QuoteInit /\ AdminInit /\ ServiceInit
InitAdmin == QuoteInit /\ AdminInit /\ ServiceInit
InitPricing == PricingInit /\ AdminInit /\ ServiceInit
InitInfo == InfoInit /\ AdminInit /\ ServiceInit
InitWrites == QuoteInit /\ WritesInit /\ ServiceInit
InitSelector == SelectorPageInit /\ AdminInit /\ ServiceInit
InitRecalc == RecalcInit /\ AdminInit /\ ServiceInit
InitAdd == AddInit /\ AdminInit /\ ServiceInit
InitCascade == QuoteInit /\ CascadeInit /\ ServiceInit
InitCascadeEdges == QuoteInit /\ CascadeEdgesInit /\ ServiceInit
InitExport == QuoteInit /\ AdminInit /\ ExportInit
InitSubscription == QuoteInit /\ AdminInit /\ SubscriptionInit

SpecQuote == InitQuote /\ [][QuoteNext]_vars
SpecPricing == InitPricing /\ [][PricingNext]_vars
SpecInfo == InitInfo /\ [][InfoNext]_vars
SpecAdmin == InitAdmin /\ [][AdminNext]_vars
SpecDelete == InitAdmin /\ [][DeleteNext]_vars
SpecWrites ==
    /\ InitWrites /\ [][WritesNext]_vars
    /\ \A k \in 1..(MaxOps + MaxRepeats) : SF_vars(StoreAnswersDelete(k))
    /\ \A k \in 1..MaxSubmits : SF_vars(StoreAnswersSubmit(k))
    /\ WF_vars(AlertDismissed)
SpecSelector == InitSelector /\ [][SelectorNext]_vars
SpecRecalc == InitRecalc /\ [][RecalcNext]_vars
SpecAdd == InitAdd /\ [][AddNext]_vars
SpecCascade == InitCascade /\ [][CascadeNext]_vars
SpecCascadeLive ==
    /\ InitCascadeEdges /\ [][CascadeNext]_vars
    /\ \A k \in 1..MaxOps : SF_vars(StoreAnswersDelete(k))
    /\ WF_vars(AlertDismissed)
SpecExport == InitExport /\ [][ExportNext]_vars
SpecSubscription == InitSubscription /\ [][SubscriptionNext]_vars

====
